---- MODULE Spec2Model ----
(***************************************************************************)
(* The training / evaluation / save workflow of neuralnet.ipynb, the shape *)
(* arithmetic of Net.forward, and the view / in-place cells of             *)
(* tensor.ipynb.                                                           *)
(*                                                                         *)
(* The workflow is the notebook's cells run top to bottom: cell 6 defines  *)
(* train_step / train_epoch and calls train_epoch(train_loader), cell 7    *)
(* defines evaluate_step / evaluate_epoch and calls                        *)
(* evaluate_epoch(val_loader), cell 8 calls torch.save.  A cell that       *)
(* raises stops the run.                                                   *)
(*                                                                         *)
(* Tensor values are abstracted to what they depend on: a gradient is the  *)
(* set of training batches whose backward pass contributed to it, the      *)
(* parameters are the sequence of gradients applied to them.               *)
(***************************************************************************)
EXTENDS Integers, Sequences, FiniteSets, TLC

\* ---------------------------------------------------------------- bounds
\* CIFAR-100 holds 50000 training and 10000 validation images, both whole
\* multiples of batch_size (6250 and 1250 batches); the model keeps the
\* multiple and scales the number of batches.
NumTrainBatches == 2
NumValBatches == 2
\* how many shuffled orders the sampler may draw
MaxSeed == 3

\* ------------------------------------------------------- program constants
batch_size == 8
PrintEvery == 100

VARIABLES
    cell,        \* the notebook cell being run, "done" or "error"
    ip,          \* position inside the cell's loop (see TrainStepBody)
    i,           \* enumerate(dataloader) index of the current batch
    order,       \* the sampler's index order for the current pass
    batch,       \* dataset indices of the current batch
    yielded,     \* batches the current pass has yielded so far
    params,      \* model parameters: the gradients applied, in order
    grad,        \* .grad of the parameters: batches accumulated into it
    buffers,     \* BatchNorm buffers: num_batches_tracked
    momentum,    \* optimizer state: batches folded into momentum_buffer
    last_epoch,  \* scheduler position
    grad_mode,   \* torch.is_grad_enabled()
    loss,        \* the tensor the current step computed last (output, then loss)
    trace,       \* library calls made by the current step, in order
    stepLog,     \* batch index of every optimizer.step call so far
    schedLog,    \* batch index of every scheduler.step call so far
    usedGrad,    \* the .grad each optimizer.step call consumed
    processed,   \* <<cell, i>> of every batch handed to a step function
    printed,     \* <<cell, i>> of every progress line printed
    files,       \* files written to disk: <<name, state_dict>>
    failed,      \* <<cell, i, call>> of the call that raised, or <<>>
    loaders,     \* len(train_data) and len(val_data) behind the two loaders
    pred,        \* evaluate_epoch: predicted class of each item of the batch
    accuracy,    \* evaluate_epoch: <<correct, len(label)>>, or <<>> before it is set
    \* Net.forward (neuralnet.ipynb, cell 2)
    net,         \* the input's shape, the shape of x, the next layer, the error
    \* tensor.ipynb, cells 6 and 7
    tpc,         \* the next statement of the two cells
    env,         \* the notebook's names a, b, c, d: the tensor object each is bound to
    heap,        \* tensor objects: shape and the storage they read and write
    storage      \* storages: the elements, in row-major order

workflowVars ==
    <<cell, ip, i, order, batch, yielded, params, grad, buffers, momentum,
      last_epoch, grad_mode, loss, trace, stepLog, schedLog, usedGrad,
      processed, printed, files, failed, loaders, pred, accuracy>>

netVars == <<net>>

tensorVars == <<tpc, env, heap, storage>>

vars == <<workflowVars, netVars, tensorVars>>

NoTensor == [batch |-> -1, requires_grad |-> FALSE]

\* ------------------------------------------------------------- data loading
Min(a, b) == IF a < b THEN a ELSE b

\* len(train_data), len(val_data)
TrainLen == NumTrainBatches * batch_size
ValLen == NumValBatches * batch_size

\* RandomSampler: a permutation of 0..n-1 (here: a rotation, or a reversed
\* rotation, of the index order, chosen by seed)
RandPerm(n, seed) ==
    [k \in 1..n |-> IF seed % 2 = 0
                    THEN ((k - 1) + seed \div 2) % n
                    ELSE ((n - k) + seed \div 2) % n]

\* SequentialSampler: 0..n-1 in index order
SeqOrder(n) == [k \in 1..n |-> k - 1]

\* len(DataLoader) with drop_last=False: ceil(n / batch_size)
LoaderLen(n) == (n + batch_size - 1) \div batch_size

\* NthBatch with the slice end off by one
NthBatch_Short(ord, k) ==
    SubSeq(ord, k * batch_size + 1, Min((k + 1) * batch_size - 1, Len(ord)))

\* BatchSampler: the k-th batch (k from 0) of a pass over sampler order ord;
\* the last batch holds what is left
NthBatch(ord, k) ==
    SubSeq(ord, k * batch_size + 1, Min((k + 1) * batch_size, Len(ord)))

\* T_max=len(train_loader)
T_max == LoaderLen(loaders.train)

\* ------------------------------------------------------------ step bodies
\* train_step with the schedule update ahead of the gradient reset
TrainStepBody_SchedulerFirst ==
    <<"forward", "loss", "backward", "opt_step", "sched_step", "zero_grad">>

\* train_step: the library calls of its body, in statement order
TrainStepBody ==
    <<"forward", "loss", "backward", "opt_step", "zero_grad", "sched_step">>

\* evaluate_step that also steps the optimizer
EvaluateStepBody_Stepping == <<"forward", "loss", "opt_step">>

\* evaluate_step: the library calls of its body, in statement order
EvaluateStepBody == <<"forward", "loss">>

Body == IF cell = "train" THEN TrainStepBody ELSE EvaluateStepBody

\* the statement about to run, or "none" at the loop head / after the return
Stmt == IF cell \in {"train", "eval"} /\ ip \in 1..Len(Body) THEN Body[ip] ELSE "none"

\* nn.Module.training: True from construction, model.eval() is never called
ModelTraining == TRUE

\* the state of a notebook that is not being run
NetIdle == net = [pc |-> 0]
TensorIdle == tpc = 0 /\ env = <<>> /\ heap = <<>> /\ storage = <<>>

\* the state cells 4 and 5 leave behind, for datasets of the given lengths:
\* the loaders, the model, the optimizer and the scheduler are built and
\* train_epoch(train_loader) is about to start
Setup(train_len, val_len) ==
    /\ NetIdle
    /\ TensorIdle
    /\ loaders = [train |-> train_len, val |-> val_len]
    /\ pred = <<>>
    /\ accuracy = <<>>
    /\ cell = "train"
    /\ ip = 0
    /\ i = -1
    /\ \E seed \in 0..MaxSeed : order = RandPerm(train_len, seed)
    /\ batch = <<>>
    /\ yielded = <<>>
    /\ params = <<>>
    /\ grad = {}
    /\ buffers = 0
    /\ momentum = {}
    /\ last_epoch = 0
    /\ grad_mode = TRUE
    /\ loss = NoTensor
    /\ trace = <<>>
    /\ stepLog = <<>>
    /\ schedLog = <<>>
    /\ usedGrad = <<>>
    /\ processed = <<>>
    /\ printed = <<>>
    /\ files = <<>>
    /\ failed = <<>>

Init == Setup(TrainLen, ValLen)

\* ------------------------------------------------------------- train_epoch
\* for i, (input, label) in enumerate(dataloader): the next batch is fetched
\* and train_step is entered
TrainNextBatch ==
    /\ cell = "train" /\ ip = 0
    /\ i + 1 < LoaderLen(Len(order))
    /\ i' = i + 1
    /\ batch' = NthBatch(order, i + 1)
    /\ yielded' = Append(yielded, NthBatch(order, i + 1))
    /\ processed' = Append(processed, <<"train", i + 1>>)
    /\ ip' = 1
    /\ trace' = <<>>
    /\ loss' = NoTensor
    /\ UNCHANGED <<netVars, tensorVars, loaders, pred, accuracy, cell, order, params, grad, buffers, momentum, last_epoch,
                   grad_mode, stepLog, schedLog, usedGrad, printed, files, failed>>

\* output = model(input): a training-mode forward pass updates the BatchNorm
\* running statistics, with or without gradient tracking; the output carries
\* an autograd graph iff gradient tracking is enabled
Forward ==
    /\ Stmt = "forward"
    /\ buffers' = IF ModelTraining THEN buffers + 1 ELSE buffers
    /\ loss' = [batch |-> i, requires_grad |-> grad_mode]
    /\ trace' = Append(trace, "forward")
    /\ ip' = ip + 1
    /\ UNCHANGED <<netVars, tensorVars, loaders, pred, accuracy, cell, i, order, batch, yielded, params, grad, momentum,
                   last_epoch, grad_mode, stepLog, schedLog, usedGrad,
                   processed, printed, files, failed>>

\* loss = criterion(output, label): the loss carries an autograd graph iff
\* the output does and gradient tracking is enabled
Criterion ==
    /\ Stmt = "loss"
    /\ loss' = [batch |-> loss.batch, requires_grad |-> loss.requires_grad /\ grad_mode]
    /\ trace' = Append(trace, "loss")
    /\ ip' = ip + 1
    /\ UNCHANGED <<netVars, tensorVars, loaders, pred, accuracy, cell, i, order, batch, yielded, params, grad, buffers,
                   momentum, last_epoch, grad_mode, stepLog, schedLog,
                   usedGrad, processed, printed, files, failed>>

\* loss.backward(): the batch's gradient is accumulated into .grad
Backward ==
    /\ Stmt = "backward"
    /\ loss.requires_grad
    /\ grad' = grad \cup {loss.batch}
    /\ trace' = Append(trace, "backward")
    /\ ip' = ip + 1
    /\ UNCHANGED <<netVars, tensorVars, loaders, pred, accuracy, cell, i, order, batch, yielded, params, buffers, momentum,
                   last_epoch, grad_mode, loss, stepLog, schedLog, usedGrad,
                   processed, printed, files, failed>>

\* optimizer.step(): SGD with momentum applies .grad to the parameters
OptimizerStep ==
    /\ Stmt = "opt_step"
    /\ params' = Append(params, grad)
    /\ momentum' = momentum \cup grad
    /\ usedGrad' = Append(usedGrad, grad)
    /\ stepLog' = Append(stepLog, i)
    /\ trace' = Append(trace, "opt_step")
    /\ ip' = ip + 1
    /\ UNCHANGED <<netVars, tensorVars, loaders, pred, accuracy, cell, i, order, batch, yielded, grad, buffers, last_epoch,
                   grad_mode, loss, schedLog, processed, printed, files, failed>>

\* zero_grad that leaves .grad as it is
OptimizerZeroGrad_Skipped ==
    /\ Stmt = "zero_grad"
    /\ trace' = Append(trace, "zero_grad")
    /\ ip' = ip + 1
    /\ UNCHANGED <<netVars, tensorVars, loaders, pred, accuracy, cell, i, order, batch, yielded, params, grad, buffers,
                   momentum, last_epoch, grad_mode, loss, stepLog, schedLog,
                   usedGrad, processed, printed, files, failed>>

\* optimizer.zero_grad()
OptimizerZeroGrad ==
    /\ Stmt = "zero_grad"
    /\ grad' = {}
    /\ trace' = Append(trace, "zero_grad")
    /\ ip' = ip + 1
    /\ UNCHANGED <<netVars, tensorVars, loaders, pred, accuracy, cell, i, order, batch, yielded, params, buffers, momentum,
                   last_epoch, grad_mode, loss, stepLog, schedLog, usedGrad,
                   processed, printed, files, failed>>

\* scheduler.step() that advances the schedule twice
SchedulerStep_Twice ==
    /\ Stmt = "sched_step"
    /\ last_epoch' = last_epoch + 2
    /\ schedLog' = Append(schedLog, i)
    /\ trace' = Append(trace, "sched_step")
    /\ ip' = ip + 1
    /\ UNCHANGED <<netVars, tensorVars, loaders, pred, accuracy, cell, i, order, batch, yielded, params, grad, buffers,
                   momentum, grad_mode, loss, stepLog, usedGrad, processed,
                   printed, files, failed>>

\* scheduler.step()
SchedulerStep ==
    /\ Stmt = "sched_step"
    /\ last_epoch' = last_epoch + 1
    /\ schedLog' = Append(schedLog, i)
    /\ trace' = Append(trace, "sched_step")
    /\ ip' = ip + 1
    /\ UNCHANGED <<netVars, tensorVars, loaders, pred, accuracy, cell, i, order, batch, yielded, params, grad, buffers,
                   momentum, grad_mode, loss, stepLog, usedGrad, processed,
                   printed, files, failed>>

\* a progress test that counts the batches from 1
TrainReturn_OneBased ==
    /\ cell = "train" /\ ip = Len(TrainStepBody) + 1
    /\ printed' = IF (i + 1) % PrintEvery = 0 THEN Append(printed, <<"train", i>>) ELSE printed
    /\ ip' = 0
    /\ UNCHANGED <<netVars, tensorVars, loaders, pred, accuracy, cell, i, order, batch, yielded, params, grad, buffers,
                   momentum, last_epoch, grad_mode, loss, trace, stepLog,
                   schedLog, usedGrad, processed, files, failed>>

\* return loss, output; then `if i % 100 == 0: print(...)` and back to the
\* loop head
TrainReturn ==
    /\ cell = "train" /\ ip = Len(TrainStepBody) + 1
    /\ printed' = IF i % PrintEvery = 0 THEN Append(printed, <<"train", i>>) ELSE printed
    /\ ip' = 0
    /\ UNCHANGED <<netVars, tensorVars, loaders, pred, accuracy, cell, i, order, batch, yielded, params, grad, buffers,
                   momentum, last_epoch, grad_mode, loss, trace, stepLog,
                   schedLog, usedGrad, processed, files, failed>>

\* the loader is exhausted: train_epoch returns and the next cell starts
\* evaluate_epoch(val_loader)
TrainEpochEnd ==
    /\ cell = "train" /\ ip = 0
    /\ i + 1 >= LoaderLen(Len(order))
    /\ cell' = "eval"
    /\ i' = -1
    /\ order' = SeqOrder(loaders.val)
    /\ batch' = <<>>
    /\ yielded' = <<>>
    /\ UNCHANGED <<netVars, tensorVars, loaders, pred, accuracy, ip, params, grad, buffers, momentum, last_epoch, grad_mode,
                   loss, trace, stepLog, schedLog, usedGrad, processed,
                   printed, files, failed>>

\* ---------------------------------------------------------- evaluate_epoch
\* the next batch is fetched and evaluate_step is entered; @torch.no_grad()
\* disables gradient tracking for the call
EvalNextBatch ==
    /\ cell = "eval" /\ ip = 0
    /\ i + 1 < LoaderLen(Len(order))
    /\ i' = i + 1
    /\ batch' = NthBatch(order, i + 1)
    /\ yielded' = Append(yielded, NthBatch(order, i + 1))
    /\ processed' = Append(processed, <<"eval", i + 1>>)
    /\ ip' = 1
    /\ trace' = <<>>
    /\ loss' = NoTensor
    /\ grad_mode' = FALSE
    /\ UNCHANGED <<netVars, tensorVars, loaders, pred, accuracy, cell, order, params, grad, buffers, momentum, last_epoch,
                   stepLog, schedLog, usedGrad, printed, files, failed>>

\* ------------------------------------------------ predictions and accuracy
\* the classes of the dataset: CIFAR-100 labels are 0..99
NumClasses == 100

\* the scores the model yields per image: models.resnet18(pretrained=False)
\* keeps torchvision's default num_classes of 1000
ModelOutFeatures == 1000

\* the label of a dataset item (a stand-in for the CIFAR-100 annotation)
Label(idx) == idx % NumClasses

\* the label tensor of a batch
Labels(b) == [p \in 1..Len(b) |-> Label(b[p])]

\* how far a wrong prediction may lie from the label in the argmax drawn
WrongOffsets == {1, 100}

\* output.argmax(dim=1, keepdim=True): per item the index of the highest of
\* its ModelOutFeatures scores; drawn here as the first k items right and the
\* others off by w
ArgmaxChoices(lb) ==
    { [p \in 1..Len(lb) |-> IF p <= k THEN lb[p] ELSE (lb[p] + w) % ModelOutFeatures] :
        k \in 0..Len(lb), w \in WrongOffsets }

RECURSIVE Sum(_)
Sum(xs) == IF xs = <<>> THEN 0 ELSE Head(xs) + Sum(Tail(xs))

\* an accuracy that compares pred (B x 1) with label (B) without view_as, so
\* that eq broadcasts to B x B
Accuracy_Broadcast(pr, lb) ==
    <<Sum([p \in 1..Len(pr) |-> Cardinality({q \in 1..Len(lb) : pr[p] = lb[q]})]), Len(lb)>>

\* pred.eq(label.view_as(pred)).sum().item() / len(label), as the fraction
\* <<numerator, denominator>>
Accuracy(pr, lb) ==
    <<Sum([p \in 1..Len(pr) |-> IF pr[p] = lb[p] THEN 1 ELSE 0]), Len(lb)>>

\* return loss, output: no_grad restores the previous mode; then pred, the
\* accuracy and the `if i % 100 == 0: print(...)`
EvalReturn ==
    /\ cell = "eval" /\ ip = Len(EvaluateStepBody) + 1
    /\ grad_mode' = TRUE
    /\ \E pr \in ArgmaxChoices(Labels(batch)) :
          /\ pred' = pr
          /\ accuracy' = Accuracy(pr, Labels(batch))
    /\ printed' = IF i % PrintEvery = 0 THEN Append(printed, <<"eval", i>>) ELSE printed
    /\ ip' = 0
    /\ UNCHANGED <<netVars, tensorVars, loaders, cell, i, order, batch, yielded, params, grad, buffers,
                   momentum, last_epoch, loss, trace, stepLog, schedLog,
                   usedGrad, processed, files, failed>>

\* the loader is exhausted: evaluate_epoch returns and the save cell starts
EvalEpochEnd ==
    /\ cell = "eval" /\ ip = 0
    /\ i + 1 >= LoaderLen(Len(order))
    /\ cell' = "save"
    /\ UNCHANGED <<netVars, tensorVars, loaders, pred, accuracy, ip, i, order, batch, yielded, params, grad, buffers,
                   momentum, last_epoch, grad_mode, loss, trace, stepLog,
                   schedLog, usedGrad, processed, printed, files, failed>>

\* ------------------------------------------------------------------- save
\* a save that does not wait for evaluate_epoch
Save_BeforeEval ==
    /\ cell \in {"eval", "save"} /\ ip = 0
    /\ files' = Append(files, <<"model.pth", [params |-> params, buffers |-> buffers]>>)
    /\ cell' = "done"
    /\ UNCHANGED <<netVars, tensorVars, loaders, pred, accuracy, ip, i, order, batch, yielded, params, grad, buffers,
                   momentum, last_epoch, grad_mode, loss, trace, stepLog,
                   schedLog, usedGrad, processed, printed, failed>>

\* torch.save(model.state_dict(), "model.pth"): the state_dict holds the
\* parameters and the buffers
Save ==
    /\ cell = "save"
    /\ files' = Append(files, <<"model.pth", [params |-> params, buffers |-> buffers]>>)
    /\ cell' = "done"
    /\ UNCHANGED <<netVars, tensorVars, loaders, pred, accuracy, ip, i, order, batch, yielded, params, grad, buffers,
                   momentum, last_epoch, grad_mode, loss, trace, stepLog,
                   schedLog, usedGrad, processed, printed, failed>>

\* ---------------------------------------------------------------- failure
\* an epoch loop that catches the exception and goes on to the next batch
Raise_Swallowed ==
    /\ Stmt # "none"
    /\ failed' = <<cell, i, Stmt>>
    /\ ip' = 0
    /\ grad_mode' = TRUE
    /\ UNCHANGED <<netVars, tensorVars, loaders, pred, accuracy, cell, i, order, batch, yielded, params, grad, buffers,
                   momentum, last_epoch, loss, trace, stepLog, schedLog,
                   usedGrad, processed, printed, files>>

\* a library call of the step raises: nothing catches it, so it leaves the
\* step, the epoch loop and the cell, and the notebook run stops (no_grad
\* restores the gradient mode on the way out)
Raise ==
    /\ Stmt # "none"
    /\ failed' = <<cell, i, Stmt>>
    /\ cell' = "error"
    /\ grad_mode' = TRUE
    /\ UNCHANGED <<netVars, tensorVars, loaders, pred, accuracy, ip, i, order, batch, yielded, params, grad, buffers,
                   momentum, last_epoch, loss, trace, stepLog, schedLog,
                   usedGrad, processed, printed, files>>

Next ==
    \/ TrainNextBatch
    \/ Forward
    \/ Criterion
    \/ Backward
    \/ OptimizerStep
    \/ OptimizerZeroGrad
    \/ SchedulerStep
    \/ TrainReturn
    \/ TrainEpochEnd
    \/ EvalNextBatch
    \/ EvalReturn
    \/ EvalEpochEnd
    \/ Save
    \/ Raise

Spec == Init /\ [][Next]_vars


\* ======================================================= workflow properties
\* the library calls a completed train_step made
Returned == cell = "train" /\ ip = Len(TrainStepBody) + 1

\* a pass over the current loader has yielded its last batch
PassDone ==
    \/ cell = "train" /\ ip = 0 /\ i + 1 = LoaderLen(TrainLen)
    \/ cell \in {"save", "done"}

\* the epochs that have completed
TrainDone == cell \in {"eval", "save", "done"}
EvalDone == cell \in {"save", "done"}

RECURSIVE Flatten(_)
Flatten(ss) == IF ss = <<>> THEN <<>> ELSE Head(ss) \o Flatten(Tail(ss))

Range(f) == {f[x] : x \in DOMAIN f}

IsPrefix(p, q) == Len(p) <= Len(q) /\ SubSeq(q, 1, Len(p)) = p

\* C1 (as stated): every train_step runs forward, loss, backward,
\* optimizer.step, scheduler.step, optimizer.zero_grad in this order, the
\* schedule update before the gradient reset.
C1_ScheduleBeforeReset ==
    Returned =>
        trace = <<"forward", "loss", "backward", "opt_step", "sched_step", "zero_grad">>

\* C1 (amended): every train_step runs forward, loss, backward,
\* optimizer.step, optimizer.zero_grad, scheduler.step in this order: the
\* gradient reset comes before the schedule update.
C1_TrainStepOrder ==
    /\ cell = "train" =>
        IsPrefix(trace, <<"forward", "loss", "backward", "opt_step", "zero_grad", "sched_step">>)
    /\ Returned =>
        trace = <<"forward", "loss", "backward", "opt_step", "zero_grad", "sched_step">>

C1_Witness == Returned /\ i = 1 /\ Len(trace) = 6

\* C2: the gradient buffers are empty whenever a train_step begins its
\* forward/backward cycle, and every optimizer.step consumes the gradient of
\* that step's batch alone.
C2_GradEmptyAtStepStart ==
    /\ (cell = "train" /\ Stmt \in {"forward", "loss", "backward"}) => grad = {}
    /\ Len(usedGrad) = Len(stepLog)
    /\ \A k \in DOMAIN usedGrad : usedGrad[k] = {stepLog[k]}

C2_Witness == cell = "train" /\ i = 1 /\ Stmt = "forward" /\ Len(usedGrad) = 1

\* C3: no step taken while evaluate_epoch runs changes the parameters, their
\* gradient buffers, the model's buffers, the optimizer state or the
\* schedule position.
C3_EvalLeavesTrainingState ==
    [][cell = "eval" =>
        /\ params' = params
        /\ grad' = grad
        /\ buffers' = buffers
        /\ momentum' = momentum
        /\ last_epoch' = last_epoch]_vars

\* C4: optimizer.step is called once per training batch, in batch order, so
\* exactly len(train_loader) times by the end of train_epoch, and never by
\* the evaluation or the save.
C4_OneOptimizerStepPerBatch ==
    /\ stepLog = [k \in 1..Len(stepLog) |-> k - 1]
    /\ (cell = "train" /\ ip = 0) => Len(stepLog) = i + 1
    /\ TrainDone => Len(stepLog) = LoaderLen(TrainLen)

C4_Witness == cell = "done" /\ Len(stepLog) = NumTrainBatches /\ Len(processed) > Len(stepLog)

\* C5: every batch a pass yields holds exactly batch_size items, no dataset
\* index is yielded twice, a finished pass has yielded every index, and
\* val_loader yields the indices in index order.
C5_FixedSizeBatches ==
    /\ \A k \in DOMAIN yielded : Len(yielded[k]) = batch_size
    /\ Cardinality(Range(Flatten(yielded))) = Len(Flatten(yielded))
    /\ PassDone => Range(Flatten(yielded)) = 0..(Len(order) - 1)
    /\ cell = "eval" => IsPrefix(Flatten(yielded), SeqOrder(ValLen))
    /\ EvalDone => Flatten(yielded) = SeqOrder(ValLen)

C5_Witness ==
    /\ cell = "train" /\ PassDone
    /\ Len(yielded) = NumTrainBatches
    /\ Flatten(yielded) # SeqOrder(TrainLen)

\* C6: model.pth is the only file written, it is written once, after both
\* epochs have completed, and it holds the parameters as the last training
\* step left them.
C6_SavedOnceAtEnd ==
    /\ Len(files) <= 1
    /\ (cell = "done") <=> (Len(files) = 1)
    /\ files # <<>> =>
        /\ files[1][1] = "model.pth"
        /\ files[1][2].params = params
        /\ Len(params) = LoaderLen(TrainLen)
        /\ Len(processed) = LoaderLen(TrainLen) + LoaderLen(ValLen)
        /\ processed[Len(processed)] = <<"eval", LoaderLen(ValLen) - 1>>

C6_Witness == cell = "done" /\ Len(files) = 1 /\ Len(files[1][2].params) = NumTrainBatches

\* C8: once a library call of a step has raised, the run is over: the error
\* is the one raised, the failing batch is the last one handed to a step,
\* no batch is handed to a step twice, and nothing is processed, printed or
\* written afterwards.
C8_FailureStopsTheRun ==
    /\ [](failed # <<>> =>
            /\ cell = "error"
            /\ processed[Len(processed)] = <<failed[1], failed[2]>>
            /\ files = <<>>)
    /\ [](Cardinality(Range(processed)) = Len(processed))
    /\ [][failed # <<>> => UNCHANGED vars]_vars

C8_Witness ==
    /\ cell = "error"
    /\ failed[1] = "train" /\ failed[2] = 0
    /\ LoaderLen(TrainLen) > 1

\* C10: scheduler.step is called once per train_step, the schedule position
\* never exceeds T_max = len(train_loader), and equals T_max once
\* train_epoch has completed.
C10_ScheduleSpansOneEpoch ==
    /\ last_epoch <= T_max
    /\ T_max = LoaderLen(TrainLen)
    /\ last_epoch = Len(schedLog)
    /\ schedLog = [k \in 1..Len(schedLog) |-> k - 1]
    /\ Returned => Len(schedLog) = i + 1
    /\ TrainDone => last_epoch = T_max

C10_Witness == cell = "eval" /\ last_epoch = T_max /\ T_max = NumTrainBatches

\* the batches of the evaluation pass whose accuracy has been computed: all
\* that were yielded, less the one whose step has not returned yet
Scored ==
    IF cell = "train" \/ (cell = "error" /\ failed[1] = "train") \/ yielded = <<>> THEN <<>>
    ELSE IF ip = 0 THEN yielded
    ELSE SubSeq(yielded, 1, Len(yielded) - 1)

\* C12: the accuracy evaluate_epoch holds is that of the batch scored last
\* alone: the number of its items whose predicted class equals the label,
\* over the number of its items, so k/len(label) with 0 <= k <= len(label).
C12_AccuracyPerBatch ==
    /\ (Scored = <<>>) <=> (accuracy = <<>>)
    /\ Scored # <<>> =>
          LET b == Scored[Len(Scored)]
          IN  /\ Len(pred) = Len(b)
              /\ accuracy[1] = Cardinality({p \in 1..Len(b) : pred[p] = Label(b[p])})
              /\ accuracy[2] = Len(b)
              /\ accuracy[1] \in 0..accuracy[2]
              /\ accuracy[2] > 0

C12_Witness ==
    /\ cell = "eval" /\ ip = 0 /\ i = 1
    /\ accuracy = <<3, 8>>
    /\ \E p \in 1..8 : pred[p] # Label(batch[p]) /\ pred[p] \in Range(Labels(batch))

\* C13: every predicted class is a class of the dataset: the argmax of the
\* model's scores lies in the label range 0..99.
C13_PredInLabelRange ==
    \A p \in DOMAIN pred : pred[p] \in 0..(NumClasses - 1)

\* ============================================== the epochs over long loaders
\* batches per loader: enough for a second progress line
LongBatches == 101

\* both loaders hold LongBatches full batches
InitEpoch == Setup(LongBatches * batch_size, LongBatches * batch_size)

\* the notebook keeps running until a cell raises or the last cell is done
SpecEpoch == InitEpoch /\ [][Next]_vars /\ WF_vars(Next)

\* the batches whose step has returned: all handed to a step, less the one
\* in flight (or the one that raised)
Completed == IF ip = 0 THEN processed ELSE SubSeq(processed, 1, Len(processed) - 1)

\* the batches that get a progress line
Reported(e) == e[2] % 100 = 0

CeilDiv(a, b) == (a + b - 1) \div b

\* C11: each epoch hands every batch of its loader to its step function once,
\* in iteration order, and the run ends; a progress line is printed for
\* exactly the completed batches with i % 100 = 0, so the first batch is
\* always reported and n batches give ceil(n/100) lines; every batch has its
\* step run (a forward pass, and in training an optimizer step), printed or
\* not.
C11_EveryBatchOnceAndProgressLines ==
    LET nt == LoaderLen(loaders.train)
        nv == LoaderLen(loaders.val)
    IN  /\ [](/\ Len(processed) <= nt + nv
              /\ \A k \in DOMAIN processed :
                    processed[k] = IF k <= nt THEN <<"train", k - 1>> ELSE <<"eval", k - nt - 1>>
              /\ \A k \in DOMAIN yielded : yielded[k] = NthBatch(order, k - 1)
              /\ (cell = "train" /\ Stmt # "none") => batch = NthBatch(order, i)
              /\ TrainDone => Len(processed) >= nt
              /\ EvalDone => Len(processed) = nt + nv
              /\ printed = SelectSeq(Completed, Reported)
              /\ Completed # <<>> => printed[1] = <<"train", 0>>
              /\ TrainDone => Len(SelectSeq(printed, LAMBDA e : e[1] = "train")) = CeilDiv(nt, 100)
              /\ EvalDone => Len(SelectSeq(printed, LAMBDA e : e[1] = "eval")) = CeilDiv(nv, 100)
              /\ ip = 0 =>
                    /\ buffers = Len(processed)
                    /\ Len(stepLog) = Min(Len(processed), nt))
        /\ <>(cell \in {"done", "error"})

C11_Witness ==
    /\ cell = "done"
    /\ Len(processed) = 2 * LongBatches
    /\ <<"train", 100>> \in Range(printed) /\ <<"eval", 100>> \in Range(printed)
    /\ <<"train", 99>> \notin Range(printed)
    /\ Len(printed) = 4

\* ================================================================ Net.forward
\* bounds of the inputs tried: image height and width, batch size
MaxDim == 34
MaxBatch == 2

\* the workflow is not running
WorkflowIdle ==
    /\ cell = "idle" /\ ip = 0 /\ i = -1
    /\ order = <<>> /\ batch = <<>> /\ yielded = <<>>
    /\ params = <<>> /\ grad = {} /\ buffers = 0 /\ momentum = {}
    /\ last_epoch = 0 /\ grad_mode = TRUE /\ loss = NoTensor
    /\ trace = <<>> /\ stepLog = <<>> /\ schedLog = <<>> /\ usedGrad = <<>>
    /\ processed = <<>> /\ printed = <<>> /\ files = <<>> /\ failed = <<>>
    /\ loaders = [train |-> 0, val |-> 0] /\ pred = <<>> /\ accuracy = <<>>

\* what a layer yields when the library rejects the shape of its input
ShapeError == <<>>

\* nn.Conv2d(in_channels, out_channels, kernel_size, stride) on a shape
\* <<B, C, H, W>>: no padding, so each side shrinks to (n - k) div stride + 1
Conv2d(x, in_channels, out_channels, kernel_size, stride) ==
    IF Len(x) # 4 \/ x[2] # in_channels \/ x[3] < kernel_size \/ x[4] < kernel_size
    THEN ShapeError
    ELSE <<x[1], out_channels,
           (x[3] - kernel_size) \div stride + 1,
           (x[4] - kernel_size) \div stride + 1>>

\* self.conv1 = nn.Conv2d(3, 32, 3, 1)
conv1(x) == Conv2d(x, 3, 32, 3, 1)

\* self.conv2 = nn.Conv2d(32, 64, 3, 1)
conv2(x) == Conv2d(x, 32, 64, 3, 1)

\* F.max_pool2d(x, 2): stride = kernel size, sides rounded down
max_pool2d(x, kernel_size) ==
    IF Len(x) # 4 \/ x[3] < kernel_size \/ x[4] < kernel_size
    THEN ShapeError
    ELSE <<x[1], x[2],
           (x[3] - kernel_size) \div kernel_size + 1,
           (x[4] - kernel_size) \div kernel_size + 1>>

\* torch.flatten(x, 1)
flatten(x) == <<x[1], x[2] * x[3] * x[4]>>

\* nn.Linear(in_features, out_features) on a shape <<B, features>>
Linear(x, in_features, out_features) ==
    IF x[Len(x)] # in_features THEN ShapeError
    ELSE [x EXCEPT ![Len(x)] = out_features]

\* a first fully connected layer sized for 28x28 images (64 * 12 * 12)
fc1_Sized28(x) == Linear(x, 9216, 1024)

\* self.fc1 = nn.Linear(12544, 1024)
fc1(x) == Linear(x, 12544, 1024)

\* self.fc2 = nn.Linear(1024, 100)
fc2(x) == Linear(x, 1024, 100)

\* Net.forward: its layers in statement order
NetForwardBody ==
    <<"conv1", "relu", "conv2", "relu", "max_pool2d", "dropout1", "flatten",
      "fc1", "relu", "dropout2", "fc2">>

\* Net.forward is called on a batch of B images of 3 x H x W
InitNet ==
    /\ WorkflowIdle
    /\ TensorIdle
    /\ \E B \in 1..MaxBatch, H \in 1..MaxDim, W \in 1..MaxDim :
          net = [pc |-> 1, input |-> <<B, 3, H, W>>, x |-> <<B, 3, H, W>>,
                 err |-> "none", flat |-> 0]

\* the layer about to run
NetLayer ==
    IF net.pc \in 1..Len(NetForwardBody) /\ net.err = "none"
    THEN NetForwardBody[net.pc] ELSE "none"

\* one statement of forward: x = layer(x), or the layer raises
NetAssign(result) ==
    /\ net' = IF result = ShapeError
              THEN [net EXCEPT !.err = NetLayer]
              ELSE [net EXCEPT !.x = result, !.pc = @ + 1]
    /\ UNCHANGED <<workflowVars, tensorVars>>

NetConv1 == NetLayer = "conv1" /\ NetAssign(conv1(net.x))

NetConv2 == NetLayer = "conv2" /\ NetAssign(conv2(net.x))

\* F.relu keeps the shape
NetRelu == NetLayer = "relu" /\ NetAssign(net.x)

NetMaxPool == NetLayer = "max_pool2d" /\ NetAssign(max_pool2d(net.x, 2))

\* nn.Dropout2d keeps the shape
NetDropout == NetLayer \in {"dropout1", "dropout2"} /\ NetAssign(net.x)

NetFlatten ==
    /\ NetLayer = "flatten"
    /\ net' = [net EXCEPT !.x = flatten(net.x), !.flat = flatten(net.x)[2], !.pc = @ + 1]
    /\ UNCHANGED <<workflowVars, tensorVars>>

NetFc1 == NetLayer = "fc1" /\ NetAssign(fc1(net.x))

NetFc2 == NetLayer = "fc2" /\ NetAssign(fc2(net.x))

NextNet ==
    \/ NetConv1
    \/ NetConv2
    \/ NetRelu
    \/ NetMaxPool
    \/ NetDropout
    \/ NetFlatten
    \/ NetFc1
    \/ NetFc2

SpecNet == InitNet /\ [][NextNet]_vars

\* ------------------------------------------------------ Net.forward properties
NetReturned == net.pc = Len(NetForwardBody) + 1
NetRaised == net.pc > 0 /\ net.err # "none"
NetH == net.input[3]
NetW == net.input[4]

\* what forward does with 32 x 32 images
NetOn32x32 ==
    (NetH = 32 /\ NetW = 32) =>
        /\ net.err = "none"
        /\ net.pc = 6 => net.x = <<net.input[1], 64, 14, 14>>
        /\ net.pc = 8 => net.x = <<net.input[1], 12544>>
        /\ NetReturned => net.x = <<net.input[1], 100>>

\* C7 (as stated): 3x32x32 images give 64x14x14 features, a flattened
\* length of 12544 and B x 100 scores; every other height/width gives another
\* flattened length and the forward pass fails.
C7_OnlyThirtyTwo ==
    /\ NetOn32x32
    /\ ((NetReturned \/ NetRaised) /\ ~(NetH = 32 /\ NetW = 32)) =>
          (NetRaised /\ net.flat # 12544)

\* C7 (amended): 3x32x32 images give 64x14x14 features, a flattened length of
\* 12544 and B x 100 scores; in general the flattened length is
\* 64 * ((H-4) div 2) * ((W-4) div 2), the forward pass returns (B x 100
\* scores) exactly when that is 12544, which heights and widths of 32 or 33
\* all give, and fails in every other case.
C7_ForwardShapes ==
    /\ NetOn32x32
    /\ net.pc >= 8 => net.flat = 64 * ((NetH - 4) \div 2) * ((NetW - 4) \div 2)
    /\ NetReturned => (net.flat = 12544 /\ net.x = <<net.input[1], 100>>)
    /\ NetRaised => net.flat # 12544
    /\ (NetH \in {32, 33} /\ NetW \in {32, 33}) => ~NetRaised
    /\ (NetReturned /\ NetH < 60 /\ NetW < 60) => (NetH \in {32, 33} /\ NetW \in {32, 33})
    /\ (net.pc > 0 /\ ~NetReturned /\ ~NetRaised) => ENABLED NextNet

C7_Witness ==
    /\ NetReturned
    /\ net.input = <<2, 3, 32, 32>>
    /\ net.x = <<2, 100>>


\* ================================================ tensor.ipynb, cells 6 and 7
\* how many different contents torch.rand / torch.randn may draw
MaxFill == 4

Names == {"a", "b", "c", "d"}

\* number of elements of a shape
RECURSIVE Numel(_)
Numel(shape) == IF shape = <<>> THEN 1 ELSE Head(shape) * Numel(Tail(shape))

\* the tensor a name is bound to, and its elements in row-major order
Tensor(name) == heap[env[name]]
Contents(name) == storage[Tensor(name).storage]

\* torch.ones((3, 4))
ones(shape) == [k \in 1..Numel(shape) |-> 1]

\* torch.rand(3, 4): elements in [0, 1), here on a grid of five values
rand(shape, seed) == [k \in 1..Numel(shape) |-> (seed * k + k \div 4) % 5]

\* torch.randn(3, 4): elements of either sign
randn(shape, seed) == [k \in 1..Numel(shape) |-> ((seed * k + 1) % 5) - 2]

\* t.view(*shape): a new tensor object over the same storage
view(t, shape) == [shape |-> shape, storage |-> t.storage]

\* x @ y.T for a 3x4 x and a 3x4 y: the 3x3 elements in row-major order
MatMulT(x, y) ==
    [k \in 1..9 |->
        LET r == (k - 1) \div 3
            c == (k - 1) % 3
        IN  x[4 * r + 1] * y[4 * c + 1] + x[4 * r + 2] * y[4 * c + 2]
            + x[4 * r + 3] * y[4 * c + 3] + x[4 * r + 4] * y[4 * c + 4]]

\* name = <a tensor with storage of its own>
Bind(name, shape, data) ==
    /\ storage' = Append(storage, data)
    /\ heap' = Append(heap, [shape |-> shape, storage |-> Len(storage) + 1])
    /\ env' = [env EXCEPT ![name] = Len(heap) + 1]

\* name = <a view of tensor t>
BindView(name, t, shape) ==
    /\ Numel(shape) = Numel(t.shape)
    /\ storage' = storage
    /\ heap' = Append(heap, view(t, shape))
    /\ env' = [env EXCEPT ![name] = Len(heap) + 1]

\* name op= ...: the elements of name's storage are overwritten in place
InPlace(name, data) ==
    /\ storage' = [storage EXCEPT ![Tensor(name).storage] = data]
    /\ UNCHANGED <<heap, env>>

\* the statement at tpc has run
TensorStep(at) ==
    /\ tpc = at
    /\ tpc' = at + 1
    /\ UNCHANGED <<workflowVars, netVars>>

InitTensor ==
    /\ WorkflowIdle
    /\ NetIdle
    /\ tpc = 1
    /\ env = [n \in Names |-> 0]
    /\ heap = <<>>
    /\ storage = <<>>

\* cell 6: a = torch.ones((3, 4))
TensorOnes == TensorStep(1) /\ Bind("a", <<3, 4>>, ones(<<3, 4>>))

\* a view that reshapes the tensor it is called on and returns it
TensorViewB_Reshapes ==
    /\ TensorStep(2)
    /\ heap' = [heap EXCEPT ![env["a"]].shape = <<4, 3>>]
    /\ env' = [env EXCEPT !["b"] = env["a"]]
    /\ storage' = storage

\* b = a.view(4, 3)
TensorViewB == TensorStep(2) /\ BindView("b", Tensor("a"), <<4, 3>>)

\* c = b.view(2, 6)
TensorViewC == TensorStep(3) /\ BindView("c", Tensor("b"), <<2, 6>>)

\* d = c.flatten(): for a contiguous tensor, a one-dimensional view
TensorFlatten == TensorStep(4) /\ BindView("d", Tensor("c"), <<Numel(Tensor("c").shape)>>)

\* cell 7: a = torch.rand(3, 4)
TensorRand ==
    /\ TensorStep(5)
    /\ \E seed \in 0..MaxFill : Bind("a", <<3, 4>>, rand(<<3, 4>>, seed))

\* b = torch.randn(3, 4)
TensorRandn ==
    /\ TensorStep(6)
    /\ \E seed \in 0..MaxFill : Bind("b", <<3, 4>>, randn(<<3, 4>>, seed))

\* c = a @ b.T
TensorMatMul == TensorStep(7) /\ Bind("c", <<3, 3>>, MatMulT(Contents("a"), Contents("b")))

\* c *= 2
TensorIMul ==
    /\ TensorStep(8)
    /\ InPlace("c", [k \in DOMAIN Contents("c") |-> Contents("c")[k] * 2])

\* d = a + b
TensorAdd ==
    /\ TensorStep(9)
    /\ Bind("d", <<3, 4>>, [k \in 1..12 |-> Contents("a")[k] + Contents("b")[k]])

\* d += 1
TensorIAdd ==
    /\ TensorStep(10)
    /\ InPlace("d", [k \in DOMAIN Contents("d") |-> Contents("d")[k] + 1])

NextTensor ==
    \/ TensorOnes
    \/ TensorViewB
    \/ TensorViewC
    \/ TensorFlatten
    \/ TensorRand
    \/ TensorRandn
    \/ TensorMatMul
    \/ TensorIMul
    \/ TensorAdd
    \/ TensorIAdd

SpecTensor == InitTensor /\ [][NextTensor]_vars

\* ----------------------------------------------------------- tensor properties
\* C9: no tensor object's shape changes after its creation; after the view
\* cell a, b, c, d are four tensors of shapes 3x4, 4x3, 2x6 and 12 holding the
\* same 12 elements; `c *= 2` and `d += 1` rebind nothing, keep every shape
\* (c stays 3x3, d stays 3x4), change only the elements of c resp. d, and
\* leave the elements of a and b as they were.
C9_ShapesImmutable ==
    /\ [][\A t \in DOMAIN heap : t \in DOMAIN heap' /\ heap'[t].shape = heap[t].shape]_vars
    /\ [](tpc \in 2..5 => Tensor("a").shape = <<3, 4>>)
    /\ [](tpc = 5 =>
            /\ Tensor("b").shape = <<4, 3>>
            /\ Tensor("c").shape = <<2, 6>>
            /\ Tensor("d").shape = <<12>>
            /\ Cardinality({env[n] : n \in Names}) = 4
            /\ \A n \in Names : Contents(n) = ones(<<12>>))
    /\ [][tpc = 8 =>
            /\ env' = env /\ heap' = heap
            /\ Tensor("c").shape = <<3, 3>>
            /\ Contents("c")' = [k \in 1..9 |-> 2 * Contents("c")[k]]
            /\ Contents("a")' = Contents("a")
            /\ Contents("b")' = Contents("b")]_vars
    /\ [][tpc = 10 =>
            /\ env' = env /\ heap' = heap
            /\ Tensor("d").shape = <<3, 4>>
            /\ Contents("d")' = [k \in 1..12 |-> Contents("d")[k] + 1]
            /\ Contents("a")' = Contents("a")
            /\ Contents("b")' = Contents("b")
            /\ Contents("c")' = Contents("c")]_vars

C9_Witness ==
    /\ tpc = 11
    /\ Tensor("c").shape = <<3, 3>> /\ Tensor("d").shape = <<3, 4>>
    /\ \E k \in 1..9 : Contents("c")[k] # 0
    /\ Contents("d") # Contents("a")
    /\ Len(heap) = 8


====
